---- MODULE Spec2Model ----
(***************************************************************************)
(* A model of the TableCheck MCP server's query-translation and            *)
(* response-normalization layer: the location resolver, the two search     *)
(* normalizers, the URL builders, the search orchestrator, the upstream    *)
(* error mapping, the four tool handlers and the POST /mcp endpoint.       *)
(*                                                                         *)
(* JavaScript values are modelled as records: a present value v is         *)
(* [val |-> v], the absent values are Undefined and Null.  Strings are     *)
(* TLA+ strings; latitudes and longitudes are integers in units of 1e-4    *)
(* degree.                                                                 *)
(***************************************************************************)
EXTENDS Integers, Sequences, FiniteSets, TLC

VARIABLES
    locQuery,     \* resolveLocation: the query string passed in
    locPc,        \* resolveLocation: "ready" | "resolved"
    locResult,    \* resolveLocation: the value the promise resolved with
    rawShape,     \* normalizers: "autocomplete" | "shop_search"
    rawResponse,  \* normalizers: the upstream response body
    normParams,   \* normalizers: the search parameters passed along
    normPc,       \* normalizers: "ready" | "parsed"
    normResult,   \* normalizers: the completion of the parse call
    urlParams,    \* URL builders: the search parameters passed in
    urlKind,      \* URL builders: "shop_search" | "reservation"
    urlPc,        \* URL builders: "ready" | "built"
    urlResult,    \* URL builders: the URL returned
    urlPrev,      \* URL builders: the URL an earlier call returned
    httpPc,       \* POST /mcp: where each HTTP request is
    transportOpen,   \* POST /mcp: whether the transport of a request is open
    serverTransport, \* the request whose transport mcpServer holds, 0 if none
    tool,         \* the tool the request calls, "none" before it arrives
    args,         \* the arguments of the tool call
    reqParams,    \* the handler's parameter object (searchParams, ...)
    pc,           \* where the request is: "idle", an await, or "done"
    calls,        \* the upstream calls issued so far, in order
    outcomes,     \* how the completed upstream calls ended, in order
    paramResults, \* searchRestaurants: the filtered-search records held
    svcResult,    \* the completion of the service method the handler awaits
    toolResult    \* the completion of the tool handler

locVars == <<locQuery, locPc, locResult>>
normVars == <<rawShape, rawResponse, normParams, normPc, normResult>>
reqVars == <<tool, args, reqParams, pc, calls, outcomes, paramResults, svcResult,
             toolResult>>
urlVars == <<urlParams, urlKind, urlPc, urlResult, urlPrev>>
mcpVars == <<httpPc, transportOpen, serverTransport>>
vars == <<locVars, normVars, urlVars, mcpVars, reqVars>>

----------------------------------------------------------------------------
(* JavaScript values                                                       *)

Undefined == [undef |-> TRUE]
Null == [null |-> TRUE]
V(x) == [val |-> x]
IsVal(v) == "val" \in DOMAIN v

\* JS truthiness of a string-or-absent value: absent and "" are falsy.
TruthyStr(v) == IsVal(v) /\ v.val # ""
\* JS truthiness of a number-or-absent value: absent and 0 are falsy.
TruthyNum(v) == IsVal(v) /\ v.val # 0

\* a || b for string-or-absent values
OrStr(a, b) == IF TruthyStr(a) THEN a ELSE b

\* String.prototype.includes
Includes(s, t) ==
    \E i \in 1..(Len(s) - Len(t) + 1) : SubSeq(s, i, i + Len(t) - 1) = t

LowerChar(c) ==
    CASE c = "A" -> "a" [] c = "B" -> "b" [] c = "C" -> "c" [] c = "D" -> "d"
      [] c = "E" -> "e" [] c = "F" -> "f" [] c = "G" -> "g" [] c = "H" -> "h"
      [] c = "I" -> "i" [] c = "J" -> "j" [] c = "K" -> "k" [] c = "L" -> "l"
      [] c = "M" -> "m" [] c = "N" -> "n" [] c = "O" -> "o" [] c = "P" -> "p"
      [] c = "Q" -> "q" [] c = "R" -> "r" [] c = "S" -> "s" [] c = "T" -> "t"
      [] c = "U" -> "u" [] c = "V" -> "v" [] c = "W" -> "w" [] c = "X" -> "x"
      [] c = "Y" -> "y" [] c = "Z" -> "z" [] OTHER -> c

\* String.prototype.toLowerCase
RECURSIVE ToLowerCase(_)
ToLowerCase(s) ==
    IF s = "" THEN ""
    ELSE LowerChar(SubSeq(s, 1, 1)) \o ToLowerCase(SubSeq(s, 2, Len(s)))

IsSpace(c) == c \in {" ", "\t", "\n"}

RECURSIVE TrimStart(_)
TrimStart(s) ==
    IF s # "" /\ IsSpace(SubSeq(s, 1, 1)) THEN TrimStart(SubSeq(s, 2, Len(s)))
    ELSE s

RECURSIVE TrimEnd(_)
TrimEnd(s) ==
    IF s # "" /\ IsSpace(SubSeq(s, Len(s), Len(s)))
    THEN TrimEnd(SubSeq(s, 1, Len(s) - 1))
    ELSE s

\* String.prototype.trim
Trim(s) == TrimEnd(TrimStart(s))

----------------------------------------------------------------------------
(* Number formatting and URL query strings                                 *)

Digit(d) ==
    CASE d = 0 -> "0" [] d = 1 -> "1" [] d = 2 -> "2" [] d = 3 -> "3"
      [] d = 4 -> "4" [] d = 5 -> "5" [] d = 6 -> "6" [] d = 7 -> "7"
      [] d = 8 -> "8" [] d = 9 -> "9"

RECURSIVE NatToString(_)
NatToString(n) ==
    IF n < 10 THEN Digit(n) ELSE NatToString(n \div 10) \o Digit(n % 10)

\* Number.prototype.toString for an integer
NumToString(n) == IF n < 0 THEN "-" \o NatToString(-n) ELSE NatToString(n)

RECURSIVE StripZeros(_)
StripZeros(s) ==
    IF s # "" /\ SubSeq(s, Len(s), Len(s)) = "0"
    THEN StripZeros(SubSeq(s, 1, Len(s) - 1))
    ELSE s

\* Number.prototype.toString for a coordinate held in units of 1e-4
CoordToString(n) ==
    LET a == IF n < 0 THEN -n ELSE n
        f == a % 10000
        frac == StripZeros(Digit(f \div 1000) \o Digit((f \div 100) % 10)
                           \o Digit((f \div 10) % 10) \o Digit(f % 10))
    IN (IF n < 0 THEN "-" ELSE "") \o NatToString(a \div 10000)
       \o (IF frac = "" THEN "" ELSE "." \o frac)

\* `${x}` for a string-or-absent value
TemplateStr(v) ==
    IF IsVal(v) THEN v.val ELSE IF v = Null THEN "null" ELSE "undefined"

\* A URL is its base and the list of (name, value) pairs appended to its
\* URLSearchParams, in append order.
Param(k, v) == <<k, v>>
When(c, ps) == IF c THEN ps ELSE <<>>

\* CONFIG
API_BASE_URL == "https://production.tablecheck.com/v2"
SHOP_UNIVERSE_ID == "57e0b91744aea12988000001"
DEFAULT_LOCALE == "en"
DEFAULT_SERVICE_MODE == "dining"
DEFAULT_VENUE_TYPE == "all"
DEFAULT_PER_PAGE == 50
DEFAULT_AVAILABILITY_DAYS == 7

\* The optional parameters Partial<SearchParams> may lack; a missing
\* property reads as undefined.
NoParams ==
    [query |-> Undefined, location |-> Undefined, cuisines |-> Undefined,
     date_min |-> Undefined, date_max |-> Undefined, num_people |-> Undefined,
     time |-> Undefined, budget_max |-> Undefined, budget_min |-> Undefined,
     sort_by |-> Undefined, sort_order |-> Undefined,
     geo_distance |-> Undefined, locale |-> Undefined]

\* params.location.lat.toString(): the location is an object whose lat and
\* lng are numbers by the time a URL is built (validateSearchParams).
LocationParams(loc) ==
    <<Param("geo_latitude", CoordToString(loc.lat.val)),
      Param("geo_longitude", CoordToString(loc.lng.val))>>

\* The time without the flag that goes with it.
TimeParams_TimeOnly(params) ==
    When(TruthyStr(params.time), <<Param("time", params.time.val)>>)

\* if (params.time) { append('time', ...); append('availability_mode', ...) }
TimeParams(params) ==
    When(TruthyStr(params.time),
         <<Param("time", params.time.val),
           Param("availability_mode", "same_meal_time")>>)

\* The standard parameters and a token that differs from call to call.
StandardParams_WithToken ==
    <<Param("availability_days_limit", NumToString(DEFAULT_AVAILABILITY_DAYS)),
      Param("availability_format", "date"),
      Param("service_mode", DEFAULT_SERVICE_MODE),
      Param("venue_type", DEFAULT_VENUE_TYPE),
      Param("randomize_geo", IF urlPc = "built" THEN "4821" ELSE "0")>>

\* buildReservationUrl: "Add standard parameters"
StandardParams ==
    <<Param("availability_days_limit", NumToString(DEFAULT_AVAILABILITY_DAYS)),
      Param("availability_format", "date"),
      Param("service_mode", DEFAULT_SERVICE_MODE),
      Param("venue_type", DEFAULT_VENUE_TYPE)>>

\* locale has the default value 'en', which replaces undefined only.
buildReservationUrl(shopId, params, locale) ==
    [base |-> "https://www.tablecheck.com/"
              \o TemplateStr(IF locale = Undefined THEN V("en") ELSE locale)
              \o "/" \o TemplateStr(shopId),
     query |->
        StandardParams
        \o When(TruthyNum(params.num_people),
                <<Param("num_people", NumToString(params.num_people.val))>>)
        \o When(TruthyStr(params.date_min), <<Param("date_min", params.date_min.val)>>)
        \o When(TruthyStr(params.date_max), <<Param("date_max", params.date_max.val)>>)
        \o TimeParams(params)
        \o When(TruthyNum(params.budget_min),
                <<Param("budget_dinner_avg_min", NumToString(params.budget_min.val))>>)
        \o When(TruthyNum(params.budget_max),
                <<Param("budget_dinner_avg_max", NumToString(params.budget_max.val))>>)
        \o When(IsVal(params.location), LocationParams(params.location.val))
        \o When(TruthyStr(params.geo_distance),
                <<Param("geo_distance", params.geo_distance.val)>>)
        \o When(TruthyStr(params.sort_by), <<Param("sort_by", params.sort_by.val)>>)
        \o When(TruthyStr(params.sort_order),
                <<Param("sort_order", params.sort_order.val)>>)]

\* One cuisines[] parameter per distinct id.
CuisineParams_Distinct(ids) ==
    LET first == {i \in 1..Len(ids) : \A j \in 1..(i - 1) : ids[j] # ids[i]}
        Keep(i) == i \in first
        kept == SelectSeq([i \in 1..Len(ids) |-> i], Keep)
    IN [k \in 1..Len(kept) |-> Param("cuisines[]", ids[kept[k]])]

\* params.cuisines.forEach(cuisine => append('cuisines[]', cuisine))
CuisineParams(ids) == [i \in 1..Len(ids) |-> Param("cuisines[]", ids[i])]

\* token is Math.floor(Math.random() * 10000)
buildShopSearchUrl(params, token) ==
    [base |-> API_BASE_URL \o "/shop_search",
     query |->
        <<Param("shop_universe_id", SHOP_UNIVERSE_ID),
          Param("availability_days_limit", NumToString(DEFAULT_AVAILABILITY_DAYS)),
          Param("availability_format", "date"),
          Param("service_mode", DEFAULT_SERVICE_MODE),
          Param("venue_type", DEFAULT_VENUE_TYPE),
          Param("per_page", NumToString(DEFAULT_PER_PAGE)),
          Param("include_ids", "true"),
          Param("randomize_geo", NumToString(token))>>
        \o When(IsVal(params.location), LocationParams(params.location.val))
        \o When(TruthyStr(params.geo_distance),
                <<Param("geo_distance", params.geo_distance.val)>>)
        \o When(TruthyStr(params.date_min), <<Param("date_min", params.date_min.val)>>)
        \o When(TruthyStr(params.date_max), <<Param("date_max", params.date_max.val)>>)
        \o When(TruthyNum(params.num_people),
                <<Param("num_people", NumToString(params.num_people.val))>>)
        \o TimeParams(params)
        \o When(TruthyNum(params.budget_min),
                <<Param("budget_dinner_avg_min", NumToString(params.budget_min.val))>>)
        \o When(TruthyNum(params.budget_max),
                <<Param("budget_dinner_avg_max", NumToString(params.budget_max.val))>>)
        \o When(TruthyStr(params.sort_by), <<Param("sort_by", params.sort_by.val)>>)
        \o When(TruthyStr(params.sort_order),
                <<Param("sort_order", params.sort_order.val)>>)
        \o When(IsVal(params.cuisines) /\ Len(params.cuisines.val) > 0,
                CuisineParams(params.cuisines.val))]

buildAutocompleteUrl(params) ==
    [base |-> API_BASE_URL \o "/autocomplete",
     query |->
        <<Param("shop_universe_id", SHOP_UNIVERSE_ID),
          Param("locale", OrStr(params.locale, V(DEFAULT_LOCALE)).val)>>
        \o When(TruthyStr(params.query), <<Param("text", params.query.val)>>)]

buildCuisinesUrl(locale) == [base |-> API_BASE_URL \o "/cuisines", query |-> <<>>]

buildAvailabilityUrl == [base |-> API_BASE_URL \o "/hub/availability_calendar",
                         query |-> <<>>]

----------------------------------------------------------------------------
(* Completions and errors                                                  *)

\* How a call ends: it returns a value or throws an error.
Return(v) == [kind |-> "return", value |-> v]
Throw(e) == [kind |-> "throw", error |-> e]
Pending == [kind |-> "pending"]

\* new Error(message), new TypeError(message), ...: no statusCode, no
\* response property.
Error(name, message) ==
    [name |-> name, message |-> message, statusCode |-> Undefined,
     response |-> Undefined]

\* new TableCheckError(message, statusCode): the third constructor argument
\* is never passed, so the response property is undefined.
TableCheckError(message, statusCode) ==
    [name |-> "TableCheckError", message |-> message,
     statusCode |-> V(statusCode), response |-> Undefined]

\* error.response?.status
ResponseStatus(error) ==
    IF IsVal(error.response) THEN error.response.val.status ELSE Undefined

handleApiError(error) ==
    LET status == ResponseStatus(error)
    IN IF status = V(404) THEN Throw(TableCheckError("Restaurant not found", 404))
       ELSE IF status = V(429) THEN Throw(TableCheckError("Rate limit exceeded", 429))
       ELSE IF status = V(400)
            THEN Throw(TableCheckError("Invalid request parameters", 400))
       ELSE Throw(TableCheckError("API request failed",
                                  IF TruthyNum(status) THEN status.val ELSE 500))

\* try { ... } catch (error) { return handleApiError(error) }
CatchApiError(completion) ==
    IF completion.kind = "throw" THEN handleApiError(completion.error)
    ELSE completion

----------------------------------------------------------------------------
(* Response normalizers (services/tablecheck.ts)                            *)

\* An upstream shop of the shop_search shape; every property may be missing.
ShopSearchShop(id, slug, name, geocode, lunchMin, lunchMax, availability) ==
    [id |-> id, slug |-> slug, name |-> name, cuisines |-> V(<<"sushi">>),
     geocode |-> geocode, budget_avg |-> V(6000), currency |-> V("JPY"),
     budget_lunch_min |-> lunchMin, budget_lunch_max |-> lunchMax,
     budget_dinner_min |-> V(5000), budget_dinner_max |-> V(9000),
     availability |-> availability, search_image |-> V("https://cdn/img.jpg")]

\* An upstream shop of the autocomplete shape: the slug is nested in payload.
AutocompleteShop(id, payload, text, geocode) ==
    [id |-> id, payload |-> payload, text |-> text, cuisines |-> V(<<"sushi">>),
     geocode |-> geocode, budget_avg |-> Undefined, currency |-> Undefined,
     budget_lunch_min |-> Undefined, budget_lunch_max |-> Undefined,
     budget_dinner_min |-> Undefined, budget_dinner_max |-> Undefined]

\* A latitude of 0 for a shop without geocode.
GeoLat_ZeroFilled(shop) == IF IsVal(shop.geocode) THEN shop.geocode.val.lat ELSE V(0)

\* shop.geocode ? shop.geocode.lat : null
GeoLat(shop) == IF IsVal(shop.geocode) THEN shop.geocode.val.lat ELSE Null

\* shop.geocode ? shop.geocode.lon : null
GeoLng(shop) == IF IsVal(shop.geocode) THEN shop.geocode.val.lon ELSE Null

\* shop.currency || 'JPY'
Currency(shop) == OrStr(shop.currency, V("JPY"))

\* shop.cuisines || []
Cuisines(shop) == IF IsVal(shop.cuisines) THEN shop.cuisines.val ELSE <<>>

\* const slug = shop.payload ? shop.payload.shop_slug : null
AutocompleteSlug(shop) ==
    IF IsVal(shop.payload) THEN shop.payload.val.shop_slug ELSE Null

AutocompleteRecord(shop, params) ==
    LET slug == AutocompleteSlug(shop)
    IN [id |-> slug,
        name |-> OrStr(shop.text, V("Unknown Restaurant")),
        slug |-> slug,
        cuisine |-> Cuisines(shop),
        location |-> [lat |-> GeoLat(shop), lng |-> GeoLng(shop)],
        currency |-> Currency(shop),
        price_avg |-> shop.budget_avg,
        lunch_price_range |-> [min |-> shop.budget_lunch_min,
                               max |-> shop.budget_lunch_max,
                               currency |-> Currency(shop)],
        dinner_price_range |-> [min |-> shop.budget_dinner_min,
                                max |-> shop.budget_dinner_max,
                                currency |-> Currency(shop)],
        available_dates |-> Undefined,
        availability_summary |-> V(""),
        image_url |-> V(""),
        reservation_url |-> buildReservationUrl(slug, params, params.locale)]

\* response.shops && response.shops.length > 0, then one record per shop
parseAutocompleteResponse(response, params) ==
    IF IsVal(response.shops)
    THEN Return([i \in 1..Len(response.shops.val) |->
                    AutocompleteRecord(response.shops.val[i], params)])
    ELSE Return(<<>>)

\* shop.name[0] || 'Unknown Restaurant', for a name that can be indexed
FirstName(shop) ==
    IF Len(shop.name.val) > 0 /\ shop.name.val[1] # ""
    THEN V(shop.name.val[1]) ELSE V("Unknown Restaurant")

ShopSearchRecord(shop, params) ==
    [id |-> OrStr(shop.id, shop.slug),
     name |-> FirstName(shop),
     slug |-> OrStr(shop.slug, shop.id),
     cuisine |-> Cuisines(shop),
     location |-> [lat |-> GeoLat(shop), lng |-> GeoLng(shop)],
     price_avg |-> shop.budget_avg,
     currency |-> Currency(shop),
     lunch_price_range |-> [min |-> shop.budget_lunch_min,
                            max |-> shop.budget_lunch_min,
                            currency |-> Currency(shop)],
     dinner_price_range |-> [min |-> shop.budget_dinner_min,
                             max |-> shop.budget_dinner_max,
                             currency |-> Currency(shop)],
     available_dates |-> shop.availability,
     availability_summary |-> Undefined,
     image_url |-> shop.search_image,
     reservation_url |->
        buildReservationUrl(OrStr(shop.slug, shop.id), params, params.locale)]

\* Reading name[0] of a shop without a name throws a TypeError out of forEach.
parseShopSearchResponse(response, params) ==
    IF IsVal(response.shops)
    THEN IF \E i \in 1..Len(response.shops.val) : ~IsVal(response.shops.val[i].name)
         THEN Throw(Error("TypeError", "Cannot read properties of undefined (reading '0')"))
         ELSE Return([i \in 1..Len(response.shops.val) |->
                         ShopSearchRecord(response.shops.val[i], params)])
    ELSE Return(<<>>)

----------------------------------------------------------------------------
(* Validation (utils/validation.ts)                                         *)

IsDigit(c) == c \in {"0", "1", "2", "3", "4", "5", "6", "7", "8", "9"}
Ch(s, i) == SubSeq(s, i, i)
DigitVal(c) == CHOOSE d \in 0..9 : Digit(d) = c
TwoDigits(s, i) == 10 * DigitVal(Ch(s, i)) + DigitVal(Ch(s, i + 1))

\* /^\d{4}-\d{2}-\d{2}$/
MatchesDatePattern(d) ==
    /\ Len(d) = 10
    /\ \A i \in {1, 2, 3, 4, 6, 7, 9, 10} : IsDigit(Ch(d, i))
    /\ Ch(d, 5) = "-" /\ Ch(d, 8) = "-"

\* !isNaN(Date.parse(d)) for a string of the pattern above: the month and
\* the day of the month must be in range.
DateParses(d) ==
    /\ TwoDigits(d, 6) \in 1..12
    /\ TwoDigits(d, 9) \in 1..31

isValidDate(d) == MatchesDatePattern(d) /\ DateParses(d)

\* /^([01]?[0-9]|2[0-3]):[0-5][0-9]$/
isValidTime(t) ==
    LET n == Len(t)
    IN /\ n \in {4, 5}
       /\ Ch(t, n - 2) = ":"
       /\ Ch(t, n - 1) \in {"0", "1", "2", "3", "4", "5"}
       /\ IsDigit(Ch(t, n))
       /\ IF n = 4 THEN IsDigit(Ch(t, 1))
          ELSE \/ Ch(t, 1) \in {"0", "1"} /\ IsDigit(Ch(t, 2))
               \/ Ch(t, 1) = "2" /\ Ch(t, 2) \in {"0", "1", "2", "3"}

\* A comparison with undefined is false.
isValidLatitude(lat) == IsVal(lat) /\ lat.val >= -900000 /\ lat.val <= 900000
isValidLongitude(lng) == IsVal(lng) /\ lng.val >= -1800000 /\ lng.val <= 1800000

\* The message of the first check that throws, "" when none does.  Each
\* check is guarded by the truthiness of the value it checks.
validateSearchParams(params) ==
    IF TruthyStr(params.date_min) /\ ~isValidDate(params.date_min.val)
    THEN "Invalid date_min format. Use YYYY-MM-DD"
    ELSE IF TruthyStr(params.date_max) /\ ~isValidDate(params.date_max.val)
    THEN "Invalid date_max format. Use YYYY-MM-DD"
    ELSE IF TruthyNum(params.num_people)
            /\ (params.num_people.val < 1 \/ params.num_people.val > 20)
    THEN "num_people must be between 1 and 20"
    ELSE IF TruthyStr(params.time) /\ ~isValidTime(params.time.val)
    THEN "Invalid time format. Use HH:MM"
    ELSE IF TruthyNum(params.budget_min) /\ params.budget_min.val < 0
    THEN "budget_min must be positive"
    ELSE IF TruthyNum(params.budget_max) /\ params.budget_max.val < 0
    THEN "budget_max must be positive"
    ELSE IF TruthyNum(params.budget_min) /\ TruthyNum(params.budget_max)
            /\ params.budget_min.val > params.budget_max.val
    THEN "budget_min cannot be greater than budget_max"
    ELSE IF IsVal(params.location) /\ ~isValidLatitude(params.location.val.lat)
    THEN "Invalid latitude. Must be between -90 and 90"
    ELSE IF IsVal(params.location) /\ ~isValidLongitude(params.location.val.lng)
    THEN "Invalid longitude. Must be between -180 and 180"
    ELSE ""

validateAvailabilityParams(params) ==
    IF ~TruthyStr(params.shop_id) THEN "shop_id is required"
    ELSE IF ~TruthyStr(params.start_at) THEN "start_at is required"
    ELSE IF ~TruthyNum(params.num_people) THEN "num_people is required"
    ELSE IF params.num_people.val < 1 \/ params.num_people.val > 20
    THEN "num_people must be between 1 and 20"
    ELSE ""

----------------------------------------------------------------------------
(* Cuisine catalog and availability calendar (services/tablecheck.ts)       *)

\* text_translations.find(t => t.locale === locale)
FindTranslation(cuisine, locale) ==
    LET hits == {i \in 1..Len(cuisine.text_translations) :
                    cuisine.text_translations[i].locale = locale}
    IN IF hits = {} THEN Undefined
       ELSE V(cuisine.text_translations[CHOOSE i \in hits : \A j \in hits : i <= j])

\* Reading .translation of a translation that was not found throws.
CuisineComplete(cuisine, locale) ==
    /\ IsVal(FindTranslation(cuisine, locale))
    /\ IsVal(FindTranslation(cuisine, "en"))
    /\ IsVal(FindTranslation(cuisine, "ja"))

CuisineRecord(cuisine, locale) ==
    [id |-> cuisine.field,
     name |-> FindTranslation(cuisine, locale).val.translation,
     name_en |-> FindTranslation(cuisine, "en").val.translation,
     name_ja |-> FindTranslation(cuisine, "ja").val.translation,
     locale |-> locale]

parseCuisinesResponse(response, locale) ==
    IF IsVal(response.cuisines)
    THEN IF \E i \in 1..Len(response.cuisines.val) :
                ~CuisineComplete(response.cuisines.val[i], locale)
         THEN Throw(Error("TypeError",
                          "Cannot read properties of undefined (reading 'translation')"))
         ELSE Return([i \in 1..Len(response.cuisines.val) |->
                         CuisineRecord(response.cuisines.val[i], locale)])
    ELSE Return(<<>>)

\* query.replace(/ /g, '-')
RECURSIVE ReplaceSpaces(_)
ReplaceSpaces(s) ==
    IF s = "" THEN ""
    ELSE (IF Ch(s, 1) = " " THEN "-" ELSE Ch(s, 1)) \o ReplaceSpaces(SubSeq(s, 2, Len(s)))

CuisineMatches(cuisine, query) ==
    LET queryLower == ToLowerCase(query)
        queryDash == ReplaceSpaces(query)
    IN \/ Includes(cuisine.id, queryDash)
       \/ Includes(ToLowerCase(cuisine.name), queryLower)
       \/ Includes(ToLowerCase(cuisine.name_en), queryLower)
       \/ Includes(ToLowerCase(cuisine.name_ja), queryLower)

RECURSIVE FilterSeq(_, _, _)
FilterSeq(q, Keep(_), i) ==
    IF i > Len(q) THEN <<>>
    ELSE (IF Keep(q[i]) THEN <<q[i]>> ELSE <<>>) \o FilterSeq(q, Keep, i + 1)

\* The ids of the matching cuisines, in catalog order.
MatchingCuisineIds(cuisines, query) ==
    LET Keep(c) == CuisineMatches(c, query)
        kept == FilterSeq(cuisines, Keep, 1)
    IN [i \in 1..Len(kept) |-> kept[i].id]

\* The calendar is a list of (date, times) entries and each times a list of
\* (time, available) entries, in the key order Object.entries yields.
RECURSIVE FlattenCalendar(_, _, _)
FlattenCalendar(data, party_size, i) ==
    IF i > Len(data) THEN <<>>
    ELSE [j \in 1..Len(data[i].times) |->
             [date |-> data[i].date, time |-> data[i].times[j].time,
              available |-> data[i].times[j].available,
              party_size |-> party_size]]
         \o FlattenCalendar(data, party_size, i + 1)

\* Only the slots that can be booked.
parseAvailabilityResponse_BookableOnly(response, party_size) ==
    LET Bookable(slot) == slot.available
    IN IF IsVal(response.availability_calendar)
          /\ IsVal(response.availability_calendar.val.data)
       THEN Return(SelectSeq(FlattenCalendar(response.availability_calendar.val.data.val,
                                             party_size, 1), Bookable))
       ELSE Return(<<>>)

\* The calendar read without testing that it is there.
parseAvailabilityResponse_Unguarded(response, party_size) ==
    IF IsVal(response.availability_calendar)
       /\ IsVal(response.availability_calendar.val.data)
    THEN Return(FlattenCalendar(response.availability_calendar.val.data.val,
                                party_size, 1))
    ELSE Throw(Error("TypeError", "Cannot convert undefined or null to object"))

parseAvailabilityResponse(response, party_size) ==
    IF IsVal(response.availability_calendar)
       /\ IsVal(response.availability_calendar.val.data)
    THEN Return(FlattenCalendar(response.availability_calendar.val.data.val,
                                party_size, 1))
    ELSE Return(<<>>)

----------------------------------------------------------------------------
(* Location resolver (utils/location.ts)                                    *)

\* CONFIG.DEFAULT_LOCATION
DEFAULT_LOCATION == [lat |-> V(356762), lng |-> V(1396503)]

\* The gazetteer, in declaration order (Object.keys iterates string keys in
\* insertion order).
knownLocations == <<
    [key |-> "shibuya", lat |-> 356596, lng |-> 1397006],
    [key |-> "shinjuku", lat |-> 356938, lng |-> 1397034],
    [key |-> "tokyo station", lat |-> 356812, lng |-> 1397671],
    [key |-> "ginza", lat |-> 356717, lng |-> 1397653],
    [key |-> "harajuku", lat |-> 356703, lng |-> 1397027],
    [key |-> "roppongi", lat |-> 356627, lng |-> 1397321],
    [key |-> "akasaka", lat |-> 356735, lng |-> 1397377],
    [key |-> "asakusa", lat |-> 357148, lng |-> 1397967],
    [key |-> "ikebukuro", lat |-> 357295, lng |-> 1397109],
    [key |-> "ueno", lat |-> 357138, lng |-> 1397774],
    [key |-> "nakameguro", lat |-> 356436, lng |-> 1396983],
    [key |-> "ebisu", lat |-> 356467, lng |-> 1397102],
    [key |-> "daikanyama", lat |-> 356496, lng |-> 1396993],
    [key |-> "tsukiji", lat |-> 356654, lng |-> 1397707],
    [key |-> "yokohama", lat |-> 354437, lng |-> 1396380],
    [key |-> "kamakura", lat |-> 353192, lng |-> 1395491],
    [key |-> "odaiba", lat |-> 356269, lng |-> 1397767],
    [key |-> "akihabara", lat |-> 357022, lng |-> 1397742],
    [key |-> "jimbocho", lat |-> 356952, lng |-> 1397577],
    [key |-> "kagurazaka", lat |-> 357022, lng |-> 1397401],
    [key |-> "nihonbashi", lat |-> 356833, lng |-> 1397744],
    [key |-> "marunouchi", lat |-> 356792, lng |-> 1397644],
    [key |-> "otemachi", lat |-> 356847, lng |-> 1397678],
    [key |-> "hibiya", lat |-> 356739, lng |-> 1397593],
    [key |-> "kasumigaseki", lat |-> 356738, lng |-> 1397521],
    [key |-> "toranomon", lat |-> 356695, lng |-> 1397496],
    [key |-> "shimbashi", lat |-> 356657, lng |-> 1397587],
    [key |-> "yurakucho", lat |-> 356751, lng |-> 1397634],
    [key |-> "omote-sando", lat |-> 356658, lng |-> 1397128],
    [key |-> "takeshita-dori", lat |-> 356703, lng |-> 1397027],
    [key |-> "meiji-jingu", lat |-> 356764, lng |-> 1396993],
    [key |-> "yoyogi", lat |-> 356837, lng |-> 1397020],
    [key |-> "sangenjaya", lat |-> 356430, lng |-> 1396685],
    [key |-> "shimokitazawa", lat |-> 356613, lng |-> 1396681],
    [key |-> "kichijoji", lat |-> 357033, lng |-> 1395806],
    [key |-> "shinjuku-south", lat |-> 356896, lng |-> 1397006],
    [key |-> "shinjuku-east", lat |-> 356938, lng |-> 1397051],
    [key |-> "shinjuku-west", lat |-> 356916, lng |-> 1396993]
>>

GazetteerKeys == {knownLocations[i].key : i \in 1..Len(knownLocations)}

EntryCoord(e) == [lat |-> V(e.lat), lng |-> V(e.lng)]

\* The names a property read on a plain object literal finds on
\* Object.prototype; of these only the all-lowercase ones can equal a
\* lowercased query.  Neither value has a lat or lng property.
ObjectPrototypeKeys == {"constructor", "__proto__"}
InheritedObject == [lat |-> Undefined, lng |-> Undefined]

\* knownLocations[name]: an own entry, else an inherited property, else
\* undefined.
LookupKnownLocation(name) ==
    IF name \in GazetteerKeys
    THEN EntryCoord(CHOOSE e \in {knownLocations[i] : i \in 1..Len(knownLocations)} :
                        e.key = name)
    ELSE IF name \in ObjectPrototypeKeys THEN InheritedObject
    ELSE Undefined

\* Object.keys(knownLocations).find(key => key.includes(n) || n.includes(key)):
\* the index of the first matching key, 0 when there is none.
FuzzyMatches(normalized) ==
    {i \in 1..Len(knownLocations) :
        \/ Includes(knownLocations[i].key, normalized)
        \/ Includes(normalized, knownLocations[i].key)}

\* The last matching key instead of the first.
MatchedKey_Last(normalized) ==
    LET m == FuzzyMatches(normalized)
    IN IF m = {} THEN 0 ELSE CHOOSE i \in m : \A j \in m : i >= j

MatchedKey(normalized) ==
    LET m == FuzzyMatches(normalized)
    IN IF m = {} THEN 0 ELSE CHOOSE i \in m : \A j \in m : i <= j

\* Surrounding whitespace removed, letter case kept.
NormalizeLocation_CaseSensitive(query) == Trim(query)

NormalizeLocation(query) == Trim(ToLowerCase(query))

\* The substring scan before the exact match.
resolveLocation_ScanFirst(query) ==
    LET normalized == NormalizeLocation(query)
        direct == LookupKnownLocation(normalized)
        matched == MatchedKey(normalized)
    IN IF matched # 0 THEN EntryCoord(knownLocations[matched])
       ELSE IF direct # Undefined THEN direct
       ELSE DEFAULT_LOCATION

resolveLocation(query) ==
    LET normalized == NormalizeLocation(query)
        direct == LookupKnownLocation(normalized)
        matched == MatchedKey(normalized)
    IN IF direct # Undefined THEN direct
       ELSE IF matched # 0 THEN EntryCoord(knownLocations[matched])
       ELSE DEFAULT_LOCATION

IsCoordinate(c) == IsVal(c.lat) /\ IsVal(c.lng)

\* Queries the resolver is exercised with: every gazetteer key, keys in
\* other letter cases and with surrounding whitespace, strings containing a
\* key, fragments of keys, names outside the gazetteer, and names of
\* properties every object inherits.
LocationQueries ==
    GazetteerKeys
    \cup {" " \o k \o "  " : k \in GazetteerKeys}
    \cup {"SHIBUYA", "Shibuya", " Shibuya ", "Tokyo Station", "GINZA", "\tueno\n",
          "Shinjuku-South", "shinjuku-south exit", "shinjuku station",
          "near ginza", "ebisu garden place", "shin", "juku", "saka", "o", "-",
          "", "   ", "tokyo", "station",
          "nonexistent-place-xyz", "osaka", "kyoto", "paris", "xyz", "q",
          "constructor", "Constructor", " CONSTRUCTOR ", "__proto__",
          "tostring", "valueof", "hasownproperty"}

----------------------------------------------------------------------------
(* Upstream: how a fetch and the reading of its body can end                *)

\* fetch resolved with a 2xx response whose body parsed as JSON
Ok(body) == [kind |-> "ok", body |-> body]

HttpFailures ==
    {[kind |-> "http", status |-> 400, statusText |-> "Bad Request"],
     [kind |-> "http", status |-> 404, statusText |-> "Not Found"],
     [kind |-> "http", status |-> 429, statusText |-> "Too Many Requests"],
     [kind |-> "http", status |-> 503, statusText |-> "Service Unavailable"]}

\* "network": fetch rejects; "badjson": response.json() rejects.
UpstreamFailures == HttpFailures \cup {[kind |-> "network"], [kind |-> "badjson"]}

\* fetch, the !response.ok check and response.json()
FetchCompletion(o) ==
    IF o.kind = "ok" THEN Return(o.body)
    ELSE IF o.kind = "http"
    THEN Throw(TableCheckError("HTTP " \o NumToString(o.status) \o ": " \o o.statusText,
                               o.status))
    ELSE IF o.kind = "network" THEN Throw(Error("TypeError", "fetch failed"))
    ELSE Throw(Error("SyntaxError", "Unexpected token < in JSON at position 0"))

Call(endpoint, method, url, body) ==
    [endpoint |-> endpoint, method |-> method, url |-> url, body |-> body]

\* Math.floor(Math.random() * 10000)
RandomTokens == {0, 4821}

----------------------------------------------------------------------------
(* TableCheckService                                                       *)

\* A text search that swallows its failure and returns no records.
textSearch_SwallowFailure(o, p) ==
    LET r == FetchCompletion(o)
    IN IF r.kind = "throw" THEN Return(<<>>) ELSE parseAutocompleteResponse(r.value, p)

textSearch(o, p) ==
    LET r == FetchCompletion(o)
    IN IF r.kind = "throw" THEN r ELSE parseAutocompleteResponse(r.value, p)

parameterSearch(o, p) ==
    LET r == FetchCompletion(o)
    IN IF r.kind = "throw" THEN r ELSE parseShopSearchResponse(r.value, p)

getCuisines(o, locale) ==
    LET r == FetchCompletion(o)
    IN CatchApiError(IF r.kind = "throw" THEN r
                     ELSE parseCuisinesResponse(r.value, locale))

\* searchCuisines: the catalog for the locale, filtered by the query
searchCuisines(o, query, locale) ==
    LET r == getCuisines(o, locale)
    IN IF r.kind = "throw" THEN r ELSE Return(MatchingCuisineIds(r.value, query))

AvailabilityRequestBody(p) ==
    [locale |-> OrStr(p.locale, V(DEFAULT_LOCALE)).val, start_at |-> p.start_at.val,
     shop_id |-> p.shop_id.val, num_people |-> NumToString(p.num_people.val)]

getAvailability(o, p) ==
    LET r == FetchCompletion(o)
    IN CatchApiError(IF r.kind = "throw" THEN r
                     ELSE parseAvailabilityResponse(r.value, p.num_people.val))

\* The combined path for every query that is a string, the empty one too.
IsCombinedSearch_AnyString(p) == IsVal(p.query)

\* searchRestaurants takes the combined path when params.query is truthy.
IsCombinedSearch(p) == TruthyStr(p.query)

\* The matched ids added to the caller's cuisine list.
InjectCuisines_Merged(p, ids) ==
    [p EXCEPT !.cuisines = V((IF IsVal(p.cuisines) THEN p.cuisines.val ELSE <<>>) \o ids)]

\* params.cuisines = cuisines: the object the handler passed in is changed.
InjectCuisines(p, ids) == [p EXCEPT !.cuisines = V(ids)]

\* The filtered-search records first.
CombineResults_ParamFirst(textRecords, paramRecords) == paramRecords \o textRecords

\* return [...textSearch, ...paramSearch]
CombineResults(textRecords, paramRecords) == textRecords \o paramRecords

----------------------------------------------------------------------------
(* Tool handlers                                                           *)

ErrorResult(text) == [isError |-> TRUE, text |-> text]

\* A catch that converts a TableCheckError only and rethrows the rest.
HandlerCatch_ApiErrorsOnly(prefix, completion) ==
    IF completion.kind = "throw" /\ completion.error.name = "TableCheckError"
    THEN Return(ErrorResult(prefix \o completion.error.message))
    ELSE completion

\* catch (error) { return { content: [...], isError: true } }: every error
\* thrown in this code is an instance of Error, so its message is shown.
HandlerCatch(prefix, completion) ==
    IF completion.kind = "throw"
    THEN Return(ErrorResult(prefix \o completion.error.message))
    ELSE completion

NoArgs ==
    [query |-> Undefined, location |-> Undefined, cuisines |-> Undefined,
     date_min |-> Undefined, date_max |-> Undefined, num_people |-> Undefined,
     time |-> Undefined, budget_max |-> Undefined, budget_min |-> Undefined,
     sort_by |-> Undefined, sort_order |-> Undefined,
     geo_distance |-> Undefined, locale |-> Undefined, shop_id |-> Undefined,
     start_at |-> Undefined, timezone |-> Undefined, date |-> Undefined]

\* args.location is a place name ([text |-> s]) or an object ([coord |-> c]).
\* A place name is resolved; an object is taken as it is.
ResolveArgLocation(location) ==
    IF location = Undefined \/ ("text" \in DOMAIN location /\ location.text = "")
    THEN Undefined
    ELSE IF "text" \in DOMAIN location THEN V(resolveLocation(location.text))
    ELSE V(location.coord)

\* The default radius for every request that names none, anchor or not.
BuildSearchParams_RadiusAlways(a) ==
    LET location == ResolveArgLocation(a.location)
    IN [query |-> a.query, cuisines |-> a.cuisines, date_min |-> a.date_min,
        date_max |-> a.date_max, num_people |-> a.num_people, time |-> a.time,
        budget_max |-> a.budget_max, budget_min |-> a.budget_min,
        sort_by |-> a.sort_by, sort_order |-> a.sort_order,
        geo_distance |-> IF ~TruthyStr(a.geo_distance) THEN V("5km") ELSE a.geo_distance,
        locale |-> OrStr(a.locale, V("en")),
        location |-> location]

\* handleSearchRestaurants up to validateSearchParams
BuildSearchParams(a) ==
    LET location == ResolveArgLocation(a.location)
    IN [query |-> a.query, cuisines |-> a.cuisines, date_min |-> a.date_min,
        date_max |-> a.date_max, num_people |-> a.num_people, time |-> a.time,
        budget_max |-> a.budget_max, budget_min |-> a.budget_min,
        sort_by |-> a.sort_by, sort_order |-> a.sort_order,
        geo_distance |-> IF IsVal(location) /\ ~TruthyStr(a.geo_distance)
                         THEN V("5km") ELSE a.geo_distance,
        locale |-> OrStr(a.locale, V("en")),
        location |-> location]

\* formatAvailability reads available_dates.length of every record.
FormatThrows(records) ==
    \E i \in 1..Len(records) : ~IsVal(records[i].available_dates)

FormatSearch(records) ==
    IF FormatThrows(records)
    THEN Throw(Error("TypeError", "Cannot read properties of undefined (reading 'length')"))
    ELSE Return([isError |-> FALSE,
                 restaurants |-> [i \in 1..Len(records) |->
                                    [id |-> records[i].id, name |-> records[i].name,
                                     reservation_url |-> records[i].reservation_url]]])

\* The rest of handleSearchRestaurants once searchRestaurants has completed.
SearchToolResult(svc) ==
    HandlerCatch("Error searching restaurants: ",
                 IF svc.kind = "throw" THEN svc ELSE FormatSearch(svc.value))

BuildAvailabilityParams(a) ==
    [shop_id |-> a.shop_id, start_at |-> a.start_at, timezone |-> a.timezone,
     num_people |-> a.num_people, locale |-> OrStr(a.locale, V("en"))]

AvailabilityToolResult(svc) ==
    HandlerCatch("Error getting availability: ",
                 IF svc.kind = "throw" THEN svc
                 ELSE Return([isError |-> FALSE, slots |-> svc.value]))

\* formatCuisinesList lists the cuisines sorted by name; the listing is
\* kept here as the set of its (name, id) lines.
CuisinesToolResult(svc) ==
    HandlerCatch("Error getting cuisines: ",
                 IF svc.kind = "throw" THEN svc
                 ELSE Return([isError |-> FALSE,
                              cuisines |-> {<<svc.value[i].name, svc.value[i].id>> :
                                               i \in 1..Len(svc.value)}]))

\* handleGenerateReservationLink: the params it passes on
BuildLinkParams(a) ==
    [NoParams EXCEPT
        !.num_people = IF TruthyNum(a.num_people) THEN a.num_people ELSE Undefined,
        !.date_min = IF TruthyStr(a.date) THEN a.date ELSE Undefined,
        !.time = IF TruthyStr(a.time) THEN a.time ELSE Undefined,
        !.location = ResolveArgLocation(a.location)]

\* buildReservationUrl calls toString on location.lat and location.lng.
LinkThrows(p) == IsVal(p.location) /\ ~IsCoordinate(p.location.val)

generateReservationLink(a) ==
    LET p == BuildLinkParams(a)
    IN IF ~TruthyStr(a.shop_id) THEN Throw(Error("Error", "shop_id is required"))
       ELSE IF LinkThrows(p)
       THEN Throw(Error("TypeError",
                        "Cannot read properties of undefined (reading 'toString')"))
       ELSE Return(buildReservationUrl(a.shop_id, p, OrStr(a.locale, V("en"))))

LinkToolResult(a) ==
    LET r == generateReservationLink(a)
    IN HandlerCatch("Error generating reservation link: ",
                    IF r.kind = "throw" THEN r
                    ELSE Return([isError |-> FALSE, url |-> r.value]))

\* Before a tool call arrives; ReqIdle when no tool call is modelled at all.
ReqInit ==
    /\ tool = "none" /\ args = NoArgs /\ reqParams = NoParams /\ pc = "idle"
    /\ calls = <<>> /\ outcomes = <<>> /\ paramResults = <<>>
    /\ svcResult = Pending /\ toolResult = Pending

ReqIdle ==
    /\ tool = "none" /\ args = NoArgs /\ reqParams = NoParams /\ pc = "off"
    /\ calls = <<>> /\ outcomes = <<>> /\ paramResults = <<>>
    /\ svcResult = Pending /\ toolResult = Pending

----------------------------------------------------------------------------
(* The normalizers and the resolver as pure functions: each specification  *)
(* draws the inputs in its initial state and applies the function once.    *)

MaxShops == 2

SeqsUpTo(S, n) == UNION {[1..k -> S] : k \in 0..n}

SampleGeocode == V([lat |-> V(356596), lon |-> V(1397006)])

RawShopSearchShops ==
    {ShopSearchShop(id, slug, name, geocode, lunchMin, lunchMax, availability) :
        id \in {Undefined, V("shop-id-1")},
        slug \in {Undefined, V(""), V("sushi-ko")},
        name \in {Undefined, V(<<>>), V(<<"Sushi Ko">>)},
        geocode \in {Undefined, SampleGeocode},
        lunchMin \in {Undefined, V(1000)},
        lunchMax \in {Undefined, V(2000)},
        availability \in {Undefined, V(<<>>), V(<<"2025-07-15">>)}}

RawAutocompleteShops ==
    {AutocompleteShop(id, payload, text, geocode) :
        id \in {Undefined, V("shop-id-1")},
        payload \in {Undefined, V([shop_slug |-> Undefined]),
                     V([shop_slug |-> V("sushi-ko")])},
        text \in {Undefined, V("Sushi Ko")},
        geocode \in {Undefined, SampleGeocode}}

\* Shops the multi-shop responses are built from; the first autocomplete
\* shop is the first shop_search shop seen through the other endpoint.
FixtureShopSearchShops ==
    {ShopSearchShop(V("id-a"), V("slug-a"), V(<<"A">>), SampleGeocode, V(1000),
                    V(2000), V(<<"2025-07-15">>)),
     ShopSearchShop(V("id-b"), Undefined, V(<<"B">>), Undefined, Undefined,
                    Undefined, V(<<>>)),
     ShopSearchShop(Undefined, Undefined, V(<<"C">>), Undefined, Undefined,
                    Undefined, V(<<>>))}

FixtureAutocompleteShops ==
    {AutocompleteShop(V("id-a"), V([shop_slug |-> V("slug-a")]), V("A"),
                      SampleGeocode),
     AutocompleteShop(V("id-u"), Undefined, V("U"), Undefined),
     AutocompleteShop(Undefined, Undefined, V("W"), Undefined)}

Responses(product, fixtures) ==
    {[shops |-> Undefined]}
    \cup {[shops |-> V(<<s>>)] : s \in product}
    \cup {[shops |-> V(q)] : q \in SeqsUpTo(fixtures, MaxShops)}

NormParamsSet ==
    {[NoParams EXCEPT !.locale = V("en")],
     [NoParams EXCEPT !.locale = V("jp"), !.num_people = V(2),
                      !.time = V("19:00"), !.query = V("sushi")]}

LocIdle == locQuery = "" /\ locPc = "off" /\ locResult = Undefined
NormIdle ==
    /\ rawShape = "none" /\ rawResponse = Undefined /\ normParams = NoParams
    /\ normPc = "off" /\ normResult = Pending
\* HTTP requests in flight at the same time
MaxRequests == 3
Requests == 1..MaxRequests
McpIdle ==
    /\ httpPc = [r \in Requests |-> "off"]
    /\ transportOpen = [r \in Requests |-> FALSE]
    /\ serverTransport = 0
UrlIdle ==
    /\ urlParams = NoParams /\ urlKind = "none" /\ urlPc = "off"
    /\ urlResult = Undefined /\ urlPrev = Undefined

NormInit ==
    /\ \/ rawShape = "autocomplete"
          /\ rawResponse \in Responses(RawAutocompleteShops, FixtureAutocompleteShops)
       \/ rawShape = "shop_search"
          /\ rawResponse \in Responses(RawShopSearchShops, FixtureShopSearchShops)
    /\ normParams \in NormParamsSet
    /\ normPc = "ready"
    /\ normResult = Pending
    /\ LocIdle /\ UrlIdle /\ McpIdle /\ ReqIdle

ParseAutocomplete ==
    /\ normPc = "ready" /\ rawShape = "autocomplete"
    /\ normResult' = parseAutocompleteResponse(rawResponse, normParams)
    /\ normPc' = "parsed"
    /\ UNCHANGED <<rawShape, rawResponse, normParams, locVars, reqVars, urlVars, mcpVars>>

ParseShopSearch ==
    /\ normPc = "ready" /\ rawShape = "shop_search"
    /\ normResult' = parseShopSearchResponse(rawResponse, normParams)
    /\ normPc' = "parsed"
    /\ UNCHANGED <<rawShape, rawResponse, normParams, locVars, reqVars, urlVars, mcpVars>>

NormNext == ParseAutocomplete \/ ParseShopSearch

SpecNormalize == NormInit /\ [][NormNext]_vars

LocInit ==
    /\ locQuery \in LocationQueries
    /\ locPc = "ready"
    /\ locResult = Undefined
    /\ NormIdle /\ UrlIdle /\ McpIdle /\ ReqIdle

ResolveLocation ==
    /\ locPc = "ready"
    /\ locResult' = resolveLocation(locQuery)
    /\ locPc' = "resolved"
    /\ UNCHANGED <<locQuery, normVars, reqVars, urlVars, mcpVars>>

LocNext == ResolveLocation

SpecLocation == LocInit /\ [][LocNext]_vars

\* Parameter objects the URL builders are exercised with: every optional
\* field absent or present, the numeric ones also present with the value 0.
UrlParamsSet ==
    {[NoParams EXCEPT !.location = location, !.geo_distance = geo_distance,
                      !.date_min = date_min, !.date_max = date_max,
                      !.num_people = num_people, !.time = time,
                      !.budget_min = budget_min, !.budget_max = budget_max,
                      !.sort_by = sort_by, !.sort_order = sort_order,
                      !.cuisines = cuisines] :
        location \in {Undefined, V([lat |-> V(356596), lng |-> V(1397006)])},
        geo_distance \in {Undefined, V("5km")},
        date_min \in {Undefined, V("2025-07-15")},
        date_max \in {Undefined, V("2025-07-20")},
        num_people \in {Undefined, V(0), V(2)},
        time \in {Undefined, V("19:00")},
        budget_min \in {Undefined, V(0), V(3000)},
        budget_max \in {Undefined, V(8000)},
        sort_by \in {Undefined, V("distance")},
        sort_order \in {Undefined, V("asc")},
        cuisines \in {Undefined, V(<<>>), V(<<"sushi">>),
                      V(<<"ramen", "italian", "ramen">>)}}

UrlInit ==
    /\ urlParams \in UrlParamsSet
    /\ urlKind = "none" /\ urlPc = "ready" /\ urlResult = Undefined
    /\ urlPrev = Undefined
    /\ LocIdle /\ NormIdle /\ McpIdle /\ ReqIdle

BuildShopSearchUrl ==
    /\ urlPc = "ready"
    /\ \E token \in RandomTokens : urlResult' = buildShopSearchUrl(urlParams, token)
    /\ urlKind' = "shop_search" /\ urlPc' = "built"
    /\ UNCHANGED <<urlParams, urlPrev, locVars, normVars, reqVars, mcpVars>>

BuildReservationUrl ==
    /\ urlPc = "ready"
    /\ urlResult' = buildReservationUrl(V("sushi-ko"), urlParams, urlParams.locale)
    /\ urlKind' = "reservation" /\ urlPc' = "built"
    /\ UNCHANGED <<urlParams, urlPrev, locVars, normVars, reqVars, mcpVars>>

\* A second call with the same arguments
RebuildShopSearchUrl ==
    /\ urlPc = "built" /\ urlKind = "shop_search"
    /\ \E token \in RandomTokens : urlResult' = buildShopSearchUrl(urlParams, token)
    /\ urlPrev' = urlResult /\ urlPc' = "rebuilt"
    /\ UNCHANGED <<urlParams, urlKind, locVars, normVars, reqVars, mcpVars>>

RebuildReservationUrl ==
    /\ urlPc = "built" /\ urlKind = "reservation"
    /\ urlResult' = buildReservationUrl(V("sushi-ko"), urlParams, urlParams.locale)
    /\ urlPrev' = urlResult /\ urlPc' = "rebuilt"
    /\ UNCHANGED <<urlParams, urlKind, locVars, normVars, reqVars, mcpVars>>

UrlNext ==
    \/ BuildShopSearchUrl \/ BuildReservationUrl
    \/ RebuildShopSearchUrl \/ RebuildReservationUrl

SpecUrl == UrlInit /\ [][UrlNext]_vars

----------------------------------------------------------------------------
(* POST /mcp: every request creates a transport of its own and connects    *)
(* the one mcpServer of the module to it.  Protocol.connect keeps the      *)
(* transport in the server; Protocol.close closes the transport the server *)
(* holds.  A connect to a server that holds a transport replaces it or     *)
(* throws, by the version of the SDK.                                      *)

McpInit ==
    /\ httpPc = [r \in Requests |-> "idle"]
    /\ transportOpen = [r \in Requests |-> FALSE]
    /\ serverTransport = 0
    /\ LocIdle /\ NormIdle /\ UrlIdle /\ ReqIdle

\* new StreamableHTTPServerTransport, res.on('close', ...) and
\* mcpServer.connect(transport), which takes the transport
AcceptRequest(r) ==
    /\ httpPc[r] = "idle"
    /\ transportOpen' = [transportOpen EXCEPT ![r] = TRUE]
    /\ serverTransport' = r
    /\ httpPc' = [httpPc EXCEPT ![r] = "handling"]
    /\ UNCHANGED <<locVars, normVars, urlVars, reqVars>>

\* mcpServer.connect(transport) throws because the server holds a
\* transport; the catch answers 500
ConnectRejected(r) ==
    /\ httpPc[r] = "idle" /\ serverTransport # 0
    /\ transportOpen' = [transportOpen EXCEPT ![r] = TRUE]
    /\ httpPc' = [httpPc EXCEPT ![r] = "failed"]
    /\ UNCHANGED <<serverTransport, locVars, normVars, urlVars, reqVars>>

\* transport.handleRequest(req, res, req.body) has written the response
HandleRequest(r) ==
    /\ httpPc[r] = "handling"
    /\ httpPc' = [httpPc EXCEPT ![r] = "responded"]
    /\ UNCHANGED <<transportOpen, serverTransport, locVars, normVars, urlVars, reqVars>>

\* res 'close': transport.close() and mcpServer.close(), which closes the
\* transport the server holds
CloseConnection(r) ==
    /\ httpPc[r] \in {"handling", "failed", "responded"}
    /\ transportOpen' = [q \in Requests |->
                            IF q = r \/ q = serverTransport THEN FALSE
                            ELSE transportOpen[q]]
    /\ serverTransport' = 0
    /\ httpPc' = [httpPc EXCEPT ![r] = "closed"]
    /\ UNCHANGED <<locVars, normVars, urlVars, reqVars>>

McpNext ==
    \E r \in Requests :
        \/ AcceptRequest(r) \/ ConnectRejected(r)
        \/ HandleRequest(r) \/ CloseConnection(r)

SpecMcp == McpInit /\ [][McpNext]_vars

----------------------------------------------------------------------------
(* One tool call, from its arrival to the handler's result.  A step ends   *)
(* where the code awaits an upstream response.                             *)

\* Requests without a usable query vary every validated field; requests
\* with a query vary what the combined path reads.
FilterSearchArgs ==
    {[NoArgs EXCEPT !.query = query, !.location = location, !.cuisines = cuisines,
                    !.date_min = date_min, !.date_max = date_max,
                    !.num_people = num_people, !.time = time,
                    !.budget_min = budget_min, !.geo_distance = geo_distance] :
        query \in {Undefined, V("")},
        location \in {Undefined, [text |-> "Shibuya"], [text |-> "constructor"],
                      [coord |-> [lat |-> V(356596), lng |-> V(1397006)]],
                      [coord |-> [lat |-> V(910000), lng |-> V(0)]],
                      [coord |-> [lat |-> V(0), lng |-> V(-1810000)]]},
        cuisines \in {Undefined, V(<<"french">>)},
        date_min \in {Undefined, V("2025-07-15"), V("15/07/2025")},
        date_max \in {Undefined, V("2025-7-20")},
        num_people \in {Undefined, V(0), V(-1), V(2), V(21)},
        time \in {Undefined, V("19:00"), V("25:00")},
        budget_min \in {Undefined, V(-100)},
        geo_distance \in {Undefined, V("2km")}}

CombinedSearchArgs ==
    {[NoArgs EXCEPT !.query = query, !.location = location, !.cuisines = cuisines,
                    !.num_people = num_people, !.locale = locale] :
        query \in {V("sushi"), V("Indian Curry"), V("kare")},
        location \in {Undefined, [text |-> "Shibuya"],
                      [coord |-> [lat |-> V(910000), lng |-> V(0)]]},
        cuisines \in {Undefined, V(<<"french">>)},
        num_people \in {Undefined, V(21)},
        locale \in {Undefined, V("jp")}}

SearchArgs == FilterSearchArgs \cup CombinedSearchArgs

AvailabilityArgs ==
    {[NoArgs EXCEPT !.shop_id = shop_id, !.start_at = start_at,
                    !.num_people = num_people, !.locale = locale] :
        shop_id \in {Undefined, V("sushi-ko")},
        start_at \in {Undefined, V("2025-07-15T10:00:00.000Z")},
        num_people \in {Undefined, V(0), V(-1), V(2), V(21)},
        locale \in {Undefined, V("jp")}}

CuisineArgs == {[NoArgs EXCEPT !.locale = locale] : locale \in {Undefined, V("en"), V("jp")}}

LinkArgs ==
    {[NoArgs EXCEPT !.shop_id = shop_id, !.num_people = num_people, !.date = date,
                    !.time = time, !.location = location, !.locale = locale] :
        shop_id \in {Undefined, V(""), V("sushi-ko")},
        num_people \in {Undefined, V(2)},
        date \in {Undefined, V("2025-07-15")},
        time \in {Undefined, V("19:00")},
        location \in {Undefined, [text |-> "Shibuya"], [text |-> "constructor"],
                      [coord |-> [lat |-> V(356596), lng |-> V(1397006)]],
                      [coord |-> [lat |-> Undefined, lng |-> Undefined]]},
        locale \in {Undefined, V("jp")}}

Translation(locale, translation) == [locale |-> locale, translation |-> translation]

SushiCuisine ==
    [field |-> "sushi",
     text_translations |-> <<Translation("en", "Sushi"), Translation("ja", "Osushi")>>]
CurryCuisine ==
    [field |-> "indian-curry",
     text_translations |-> <<Translation("ja", "Kare"), Translation("en", "Indian Curry"),
                             Translation("jp", "Kare")>>]
EnglishOnlyCuisine ==
    [field |-> "french", text_translations |-> <<Translation("en", "French")>>]

CuisineBodies ==
    {[cuisines |-> Undefined], [cuisines |-> V(<<CurryCuisine>>)],
     [cuisines |-> V(<<SushiCuisine, CurryCuisine>>)],
     [cuisines |-> V(<<SushiCuisine, EnglishOnlyCuisine>>)]}

\* A shop_search body one of whose shops has no name
NamelessShop ==
    ShopSearchShop(V("id-n"), V("slug-n"), Undefined, Undefined, Undefined, Undefined,
                   V(<<>>))

ShopSearchBodies ==
    {[shops |-> Undefined], [shops |-> V(<<NamelessShop>>)]}
    \cup {[shops |-> V(q)] : q \in SeqsUpTo(FixtureShopSearchShops, MaxShops)}

AutocompleteBodies ==
    {[shops |-> Undefined]}
    \cup {[shops |-> V(q)] : q \in SeqsUpTo(FixtureAutocompleteShops, MaxShops)}

Slot(time, available) == [time |-> time, available |-> available]

CalendarBodies ==
    {[availability_calendar |-> Undefined],
     [availability_calendar |-> V([data |-> Undefined])],
     [availability_calendar |-> V([data |-> V(<<>>)])],
     [availability_calendar |->
        V([data |-> V(<<[date |-> "2025-07-15",
                         times |-> <<Slot("18:00", TRUE), Slot("19:00", FALSE)>>]>>)])],
     [availability_calendar |->
        V([data |-> V(<<[date |-> "2025-07-15", times |-> <<Slot("18:00", FALSE)>>],
                        [date |-> "2025-07-16", times |-> <<>>],
                        [date |-> "2025-07-17",
                         times |-> <<Slot("12:00", TRUE), Slot("18:00", TRUE)>>]>>)])]}

Outcomes(bodies) == {Ok(b) : b \in bodies} \cup UpstreamFailures

ShopSearchCall(p, token) ==
    Call("shop_search", "GET", buildShopSearchUrl(p, token), Undefined)

\* handleSearchRestaurants: validateSearchParams throws
SearchRejected ==
    /\ pc = "idle"
    /\ \E a \in SearchArgs :
            LET p == BuildSearchParams(a)
                message == validateSearchParams(p)
            IN /\ message # ""
               /\ tool' = "search_restaurants" /\ args' = a /\ reqParams' = p
               /\ toolResult' = HandlerCatch("Error searching restaurants: ",
                                             Throw(Error("Error", message)))
               /\ pc' = "done"
               /\ UNCHANGED <<calls, outcomes, paramResults, svcResult, locVars, normVars, urlVars, mcpVars>>

\* handleSearchRestaurants -> searchRestaurants, no query: parameterSearch
\* issues the shop_search request
SearchStartFilter ==
    /\ pc = "idle"
    /\ \E a \in SearchArgs, token \in RandomTokens :
            LET p == BuildSearchParams(a)
            IN /\ validateSearchParams(p) = ""
               /\ ~IsCombinedSearch(p)
               /\ tool' = "search_restaurants" /\ args' = a /\ reqParams' = p
               /\ calls' = <<ShopSearchCall(p, token)>>
               /\ pc' = "awaitShopSearch"
               /\ UNCHANGED <<outcomes, paramResults, svcResult, toolResult, locVars,
                              normVars, urlVars, mcpVars>>

\* handleSearchRestaurants -> searchRestaurants, with a query: searchCuisines
\* -> getCuisines issues the cuisines request
SearchStartCombined ==
    /\ pc = "idle"
    /\ \E a \in SearchArgs :
            LET p == BuildSearchParams(a)
            IN /\ validateSearchParams(p) = ""
               /\ IsCombinedSearch(p)
               /\ tool' = "search_restaurants" /\ args' = a /\ reqParams' = p
               /\ calls' = <<Call("cuisines", "GET", buildCuisinesUrl(p.locale), Undefined)>>
               /\ pc' = "awaitCuisines"
               /\ UNCHANGED <<outcomes, paramResults, svcResult, toolResult, locVars,
                              normVars, urlVars, mcpVars>>

\* An error leaves searchRestaurants through its catch and the handler
\* through its own.
SearchEnds(svc) ==
    /\ svcResult' = svc
    /\ toolResult' = SearchToolResult(svc)
    /\ pc' = "done"

\* searchCuisines threw
CuisinesFailed ==
    /\ pc = "awaitCuisines"
    /\ \E o \in Outcomes(CuisineBodies) :
            LET r == searchCuisines(o, reqParams.query.val, reqParams.locale.val)
            IN /\ r.kind = "throw"
               /\ outcomes' = Append(outcomes, o)
               /\ SearchEnds(CatchApiError(r))
               /\ UNCHANGED <<tool, args, reqParams, calls, paramResults, locVars, normVars, urlVars,
                              mcpVars>>

\* params.cuisines = cuisines, then parameterSearch issues shop_search
CuisinesMatched ==
    /\ pc = "awaitCuisines"
    /\ \E o \in Outcomes(CuisineBodies), token \in RandomTokens :
            LET r == searchCuisines(o, reqParams.query.val, reqParams.locale.val)
            IN /\ r.kind = "return"
               /\ outcomes' = Append(outcomes, o)
               /\ reqParams' = InjectCuisines(reqParams, r.value)
               /\ calls' = Append(calls, ShopSearchCall(reqParams', token))
               /\ pc' = "awaitShopSearch"
               /\ UNCHANGED <<tool, args, paramResults, svcResult, toolResult, locVars,
                              normVars, urlVars, mcpVars>>

\* parameterSearch threw
ShopSearchFailed ==
    /\ pc = "awaitShopSearch"
    /\ \E o \in Outcomes(ShopSearchBodies) :
            LET r == parameterSearch(o, reqParams)
            IN /\ r.kind = "throw"
               /\ outcomes' = Append(outcomes, o)
               /\ SearchEnds(CatchApiError(r))
               /\ UNCHANGED <<tool, args, reqParams, calls, paramResults, locVars, normVars, urlVars,
                              mcpVars>>

\* no query: return await this.parameterSearch(params)
ShopSearchReturned ==
    /\ pc = "awaitShopSearch"
    /\ \E o \in Outcomes(ShopSearchBodies) :
            LET r == parameterSearch(o, reqParams)
            IN /\ r.kind = "return"
               /\ ~IsCombinedSearch(reqParams)
               /\ outcomes' = Append(outcomes, o)
               /\ SearchEnds(r)
               /\ UNCHANGED <<tool, args, reqParams, calls, paramResults, locVars, normVars, urlVars,
                              mcpVars>>

\* with a query: textSearch issues the autocomplete request
ShopSearchThenText ==
    /\ pc = "awaitShopSearch"
    /\ \E o \in Outcomes(ShopSearchBodies) :
            LET r == parameterSearch(o, reqParams)
            IN /\ r.kind = "return"
               /\ IsCombinedSearch(reqParams)
               /\ outcomes' = Append(outcomes, o)
               /\ paramResults' = r.value
               /\ calls' = Append(calls, Call("autocomplete", "GET",
                                              buildAutocompleteUrl(reqParams), Undefined))
               /\ pc' = "awaitAutocomplete"
               /\ UNCHANGED <<tool, args, reqParams, svcResult, toolResult, locVars,
                              normVars, urlVars, mcpVars>>

\* textSearch completes and searchRestaurants returns or throws
AutocompleteCompleted ==
    /\ pc = "awaitAutocomplete"
    /\ \E o \in Outcomes(AutocompleteBodies) :
            LET r == textSearch(o, reqParams)
            IN /\ outcomes' = Append(outcomes, o)
               /\ SearchEnds(IF r.kind = "throw" THEN CatchApiError(r)
                             ELSE Return(CombineResults(r.value, paramResults)))
               /\ UNCHANGED <<tool, args, reqParams, calls, paramResults, locVars, normVars, urlVars,
                              mcpVars>>

\* handleGetAvailability: validateAvailabilityParams throws
AvailabilityRejected ==
    /\ pc = "idle"
    /\ \E a \in AvailabilityArgs :
            LET p == BuildAvailabilityParams(a)
                message == validateAvailabilityParams(p)
            IN /\ message # ""
               /\ tool' = "get_restaurant_availability" /\ args' = a /\ reqParams' = p
               /\ toolResult' = HandlerCatch("Error getting availability: ",
                                             Throw(Error("Error", message)))
               /\ pc' = "done"
               /\ UNCHANGED <<calls, outcomes, paramResults, svcResult, locVars, normVars, urlVars, mcpVars>>

\* handleGetAvailability -> getAvailability issues the calendar request
AvailabilityStart ==
    /\ pc = "idle"
    /\ \E a \in AvailabilityArgs :
            LET p == BuildAvailabilityParams(a)
            IN /\ validateAvailabilityParams(p) = ""
               /\ tool' = "get_restaurant_availability" /\ args' = a /\ reqParams' = p
               /\ calls' = <<Call("availability_calendar", "POST", buildAvailabilityUrl,
                                  V(AvailabilityRequestBody(p)))>>
               /\ pc' = "awaitAvailability"
               /\ UNCHANGED <<outcomes, paramResults, svcResult, toolResult, locVars,
                              normVars, urlVars, mcpVars>>

AvailabilityCompleted ==
    /\ pc = "awaitAvailability"
    /\ \E o \in Outcomes(CalendarBodies) :
            /\ outcomes' = Append(outcomes, o)
            /\ svcResult' = getAvailability(o, reqParams)
            /\ toolResult' = AvailabilityToolResult(svcResult')
            /\ pc' = "done"
            /\ UNCHANGED <<tool, args, reqParams, calls, paramResults, locVars, normVars, urlVars,
                           mcpVars>>

\* handleListCuisines -> getCuisines issues the cuisines request
ListCuisinesStart ==
    /\ pc = "idle"
    /\ \E a \in CuisineArgs :
            /\ tool' = "list_cuisines" /\ args' = a
            /\ reqParams' = [NoParams EXCEPT !.locale = OrStr(a.locale, V("en"))]
            /\ calls' = <<Call("cuisines", "GET",
                               buildCuisinesUrl(OrStr(a.locale, V("en"))), Undefined)>>
            /\ pc' = "awaitCuisineList"
            /\ UNCHANGED <<outcomes, paramResults, svcResult, toolResult, locVars, normVars, urlVars,
                           mcpVars>>

ListCuisinesCompleted ==
    /\ pc = "awaitCuisineList"
    /\ \E o \in Outcomes(CuisineBodies) :
            /\ outcomes' = Append(outcomes, o)
            /\ svcResult' = getCuisines(o, reqParams.locale.val)
            /\ toolResult' = CuisinesToolResult(svcResult')
            /\ pc' = "done"
            /\ UNCHANGED <<tool, args, reqParams, calls, paramResults, locVars, normVars, urlVars,
                           mcpVars>>

\* handleGenerateReservationLink: no upstream call
GenerateLink ==
    /\ pc = "idle"
    /\ \E a \in LinkArgs :
            /\ tool' = "generate_reservation_link" /\ args' = a
            /\ reqParams' = BuildLinkParams(a)
            /\ toolResult' = LinkToolResult(a)
            /\ pc' = "done"
            /\ UNCHANGED <<calls, outcomes, paramResults, svcResult, locVars, normVars, urlVars, mcpVars>>

Init == ReqInit /\ LocIdle /\ NormIdle /\ UrlIdle /\ McpIdle

Next ==
    \/ SearchRejected \/ SearchStartFilter \/ SearchStartCombined
    \/ CuisinesFailed \/ CuisinesMatched
    \/ ShopSearchFailed \/ ShopSearchReturned \/ ShopSearchThenText
    \/ AutocompleteCompleted
    \/ AvailabilityRejected \/ AvailabilityStart \/ AvailabilityCompleted
    \/ ListCuisinesStart \/ ListCuisinesCompleted
    \/ GenerateLink

Spec == Init /\ [][Next]_vars

----------------------------------------------------------------------------
(* Properties                                                              *)

Done == pc = "done"
IsSearch == tool = "search_restaurants"
IsAvailability == tool = "get_restaurant_availability"
\* The handler reached the service method (validation passed).
ServiceInvoked == svcResult.kind # "pending"
\* The request carries a free-text query.
QueryPresent == TruthyStr(reqParams.query)
Endpoints == [i \in 1..Len(calls) |-> calls[i].endpoint]
CallCount(endpoint) == Cardinality({i \in 1..Len(calls) : calls[i].endpoint = endpoint})
\* The outcome of the call to an endpoint that was called and has completed.
OutcomeOf(endpoint) ==
    outcomes[CHOOSE i \in 1..Len(outcomes) : calls[i].endpoint = endpoint]
SomeCallFailed == \E i \in 1..Len(outcomes) : outcomes[i].kind # "ok"

Parsed == normPc = "parsed" /\ normResult.kind = "return"
RawShops == IF IsVal(rawResponse.shops) THEN rawResponse.shops.val ELSE <<>>
\* The slug and the identifier an upstream shop carries, by shape.
RawSlug(shop) == IF rawShape = "autocomplete" THEN AutocompleteSlug(shop) ELSE shop.slug
HasSlug(shop) == TruthyStr(RawSlug(shop))
HasId(shop) == TruthyStr(shop.id)

\* C1: every record either search normalizer emits has a non-empty slug, and
\* a shop that carries neither a slug nor an identifier yields no record:
\* the output holds one record per shop that carries one of the two.
C1_EveryRecordHasSlug ==
    Parsed =>
        /\ \A i \in 1..Len(normResult.value) : TruthyStr(normResult.value[i].slug)
        /\ Len(normResult.value) =
              Cardinality({i \in 1..Len(RawShops) :
                              HasSlug(RawShops[i]) \/ HasId(RawShops[i])})

\* C2: in both normalizers a shop without a slug but with an identifier
\* yields a record whose slug is that identifier and whose reservation URL
\* is built with it.
C2_SlugFallsBackToId ==
    Parsed =>
        \A i \in 1..Len(RawShops) :
            (~HasSlug(RawShops[i]) /\ HasId(RawShops[i])) =>
                /\ i <= Len(normResult.value)
                /\ normResult.value[i].slug = RawShops[i].id
                /\ normResult.value[i].reservation_url =
                      buildReservationUrl(RawShops[i].id, normParams, normParams.locale)

\* The records of the two upstream responses of a combined search.
TextRecords == parseAutocompleteResponse(OutcomeOf("autocomplete").body, reqParams).value
ParamRecords == parseShopSearchResponse(OutcomeOf("shop_search").body, reqParams).value

CombinedReturned == Done /\ IsSearch /\ QueryPresent /\ svcResult.kind = "return"

\* C3: with a query, searchRestaurants returns the text-search records in
\* upstream order followed by the filtered-search records in upstream
\* order, none removed: N + M entries.
C3_TextThenParam ==
    CombinedReturned =>
        LET n == Len(TextRecords)
            m == Len(ParamRecords)
        IN /\ Len(svcResult.value) = n + m
           /\ \A i \in 1..n : svcResult.value[i] = TextRecords[i]
           /\ \A j \in 1..m : svcResult.value[n + j] = ParamRecords[j]

\* Two text-search and two filtered-search records came back, and a
\* restaurant is in both lists.
C3_Witness ==
    /\ CombinedReturned
    /\ Len(TextRecords) = 2 /\ Len(ParamRecords) = 2
    /\ TextRecords[1] # TextRecords[2]
    /\ ParamRecords[1] # ParamRecords[2]
    /\ TextRecords[1].slug = ParamRecords[2].slug
    /\ Len(svcResult.value) = 4

\* C4 as stated: without a query exactly one upstream call, a shop_search;
\* with a query the cuisine catalog, autocomplete and shop_search are each
\* called exactly once.
C4_EachCalledExactlyOnce ==
    (Done /\ IsSearch /\ ServiceInvoked) =>
        IF QueryPresent
        THEN /\ CallCount("cuisines") = 1
             /\ CallCount("autocomplete") = 1
             /\ CallCount("shop_search") = 1
        ELSE Endpoints = <<"shop_search">>

\* C4 amended: without a query exactly one upstream call, a shop_search;
\* with a query the cuisine catalog is called exactly once and autocomplete
\* and shop_search at most once each, all three exactly once whenever the
\* search returns.
C4_PathByRequestShape ==
    (Done /\ IsSearch /\ ServiceInvoked) =>
        IF QueryPresent
        THEN /\ CallCount("cuisines") = 1
             /\ CallCount("autocomplete") <= 1
             /\ CallCount("shop_search") <= 1
             /\ Len(calls) = CallCount("cuisines") + CallCount("autocomplete")
                             + CallCount("shop_search")
             /\ svcResult.kind = "return" =>
                    CallCount("autocomplete") = 1 /\ CallCount("shop_search") = 1
        ELSE Endpoints = <<"shop_search">>

\* A combined search returned after its three calls.
C4_Witness ==
    /\ Done /\ IsSearch /\ ServiceInvoked /\ QueryPresent
    /\ svcResult.kind = "return" /\ Len(calls) = 3

\* The error the taxonomy assigns to an upstream status.
ExpectedMessage(status) ==
    IF status = 404 THEN "Restaurant not found"
    ELSE IF status = 429 THEN "Rate limit exceeded"
    ELSE IF status = 400 THEN "Invalid request parameters"
    ELSE "API request failed"

\* C5: a non-2xx upstream response reaches the caller as a TableCheckError
\* that keeps the upstream status, with the message of its class.
C5_StatusKept ==
    (Done /\ ServiceInvoked /\ outcomes # <<>>
          /\ outcomes[Len(outcomes)].kind = "http") =>
        /\ svcResult.kind = "throw"
        /\ svcResult.error.name = "TableCheckError"
        /\ svcResult.error.statusCode = V(outcomes[Len(outcomes)].status)
        /\ svcResult.error.message = ExpectedMessage(outcomes[Len(outcomes)].status)

\* C6: a tool handler never throws; it returns a result, and an error
\* result carries a message.
C6_HandlersNeverThrow ==
    /\ toolResult.kind # "throw"
    /\ Done =>
          /\ toolResult.kind = "return"
          /\ toolResult.value.isError => Len(toolResult.value.text) > 0

\* The service returned records and the handler's own formatting threw:
\* the handler still ended in an error result.
C6_Witness ==
    /\ Done /\ IsSearch
    /\ svcResult.kind = "return" /\ FormatThrows(svcResult.value)
    /\ toolResult.kind = "return" /\ toolResult.value.isError

\* A request the validation rules of the claim reject.
OutOfRange(v, lo, hi) == IsVal(v) /\ (v.val < lo \/ v.val > hi)
InvalidSearchRequest ==
    \/ IsVal(reqParams.date_min) /\ ~isValidDate(reqParams.date_min.val)
    \/ IsVal(reqParams.date_max) /\ ~isValidDate(reqParams.date_max.val)
    \/ IsVal(reqParams.time) /\ ~isValidTime(reqParams.time.val)
    \/ OutOfRange(reqParams.num_people, 1, 20)
    \/ /\ IsVal(reqParams.location)
       /\ \/ OutOfRange(reqParams.location.val.lat, -900000, 900000)
          \/ OutOfRange(reqParams.location.val.lng, -1800000, 1800000)
InvalidAvailabilityRequest ==
    \/ ~IsVal(reqParams.shop_id) \/ ~IsVal(reqParams.start_at)
    \/ ~IsVal(reqParams.num_people)
    \/ OutOfRange(reqParams.num_people, 1, 20)

\* C7: a search or availability request that fails validation gets a local
\* error result and no upstream call is issued for it.
C7_InvalidNeverReachesUpstream ==
    /\ (IsSearch /\ InvalidSearchRequest) =>
            calls = <<>> /\ (Done => toolResult.value.isError)
    /\ (IsAvailability /\ InvalidAvailabilityRequest) =>
            calls = <<>> /\ (Done => toolResult.value.isError)

\* C8: no call is issued after a failed one, no endpoint is called twice,
\* and a search one of whose calls failed ends in an error, not in the
\* records of the calls that succeeded.
C8_FailFastNoRetry ==
    /\ \A i \in 1..Len(outcomes) : outcomes[i].kind # "ok" => Len(calls) = i
    /\ \A i, j \in 1..Len(calls) : calls[i].endpoint = calls[j].endpoint => i = j
    /\ (Done /\ IsSearch /\ SomeCallFailed) =>
            /\ svcResult.kind = "throw"
            /\ toolResult.kind = "return" /\ toolResult.value.isError

\* The text search failed after the filtered search had returned records.
C8_Witness ==
    /\ Done /\ IsSearch /\ Len(calls) = 3
    /\ outcomes[3].kind = "http" /\ Len(paramResults) = 2
    /\ svcResult.kind = "throw" /\ toolResult.value.isError

\* The coordinate the gazetteer stores under a key.
StoredUnder(key) ==
    LET i == CHOOSE i \in 1..Len(knownLocations) : knownLocations[i].key = key
    IN [lat |-> V(knownLocations[i].lat), lng |-> V(knownLocations[i].lng)]

\* C9: resolving a gazetteer key returns the coordinate stored under it,
\* also when an earlier key is a substring of it.
C9_KeyResolvesToOwnEntry ==
    (locPc = "resolved" /\ locQuery \in GazetteerKeys) =>
        locResult = StoredUnder(locQuery)

C9_Witness ==
    /\ locPc = "resolved" /\ locQuery = "shinjuku-south"
    /\ Includes(locQuery, knownLocations[2].key)
    /\ locResult = [lat |-> V(356896), lng |-> V(1397006)]

\* The normalized query is no key, contains no key and is part of no key.
NoGazetteerMatch(n) ==
    /\ n \notin GazetteerKeys
    /\ \A k \in GazetteerKeys : ~Includes(n, k) /\ ~Includes(k, n)

\* C10: resolveLocation returns a coordinate for every query, the default
\* anchor when nothing in the gazetteer matches.
C10_AlwaysACoordinate ==
    locPc = "resolved" =>
        /\ IsCoordinate(locResult)
        /\ NoGazetteerMatch(NormalizeLocation(locQuery)) => locResult = DEFAULT_LOCATION

\* C11: resolveLocation(s) equals resolveLocation(lowercase(trim(s))) for
\* every input s.
C11_CaseAndWhitespaceInvariant ==
    locPc = "resolved" => locResult = resolveLocation(ToLowerCase(Trim(locQuery)))

\* ' Shibuya ' resolved to the coordinate of 'shibuya'.
C11_Witness ==
    /\ locPc = "resolved" /\ locQuery = " Shibuya "
    /\ ToLowerCase(Trim(locQuery)) = "shibuya" /\ locQuery # "shibuya"
    /\ locResult = StoredUnder("shibuya")

\* Key i of the gazetteer is part of the text or the text is part of it.
KeyMatches(i, text) ==
    \/ Includes(knownLocations[i].key, text)
    \/ Includes(text, knownLocations[i].key)

\* C12: for an input that is no exact key, the result is the coordinate of
\* the first key in declaration order that contains the input or is
\* contained in it.
C12_FirstMatchWins ==
    LET n == ToLowerCase(Trim(locQuery))
    IN (locPc = "resolved" /\ n \notin GazetteerKeys) =>
          \A i \in 1..Len(knownLocations) :
              (KeyMatches(i, n) /\ \A j \in 1..(i - 1) : ~KeyMatches(j, n)) =>
                  locResult = StoredUnder(knownLocations[i].key)

\* 'shinjuku-south exit' contains 'shinjuku' and 'shinjuku-south' and
\* resolved to the earlier of the two.
C12_Witness ==
    /\ locPc = "resolved" /\ locQuery = "shinjuku-south exit"
    /\ KeyMatches(2, locQuery) /\ KeyMatches(36, locQuery)
    /\ knownLocations[36].key = "shinjuku-south"
    /\ locResult = StoredUnder("shinjuku")
    /\ locResult # StoredUnder("shinjuku-south")

\* The catalog a successful cuisines response carried, and the locale asked.
CatalogReceived ==
    /\ outcomes # <<>> /\ calls[1].endpoint = "cuisines"
    /\ outcomes[1].kind = "ok" /\ IsVal(outcomes[1].body.cuisines)
CatalogEntries == outcomes[1].body.cuisines.val
RequestLocale == reqParams.locale.val
\* The translation of an upstream cuisine entry for a locale, if it has one.
HasTranslation(entry, locale) ==
    \E t \in 1..Len(entry.text_translations) : entry.text_translations[t].locale = locale
TranslationOf(entry, locale) ==
    entry.text_translations[CHOOSE t \in 1..Len(entry.text_translations) :
                                entry.text_translations[t].locale = locale].translation

\* C13: a cuisine listing returns one record for every upstream entry that
\* has a translation for the locale, named by that translation, and skips
\* the entries that have none; the listing does not fail.
C13_MissingTranslationSkipped ==
    (Done /\ tool = "list_cuisines" /\ CatalogReceived) =>
        LET kept == {i \in 1..Len(CatalogEntries) :
                        HasTranslation(CatalogEntries[i], RequestLocale)}
        IN /\ svcResult.kind = "return"
           /\ Len(svcResult.value) = Cardinality(kept)
           /\ \A i \in kept :
                 \E k \in 1..Len(svcResult.value) :
                     /\ svcResult.value[k].id = CatalogEntries[i].field
                     /\ svcResult.value[k].name =
                           TranslationOf(CatalogEntries[i], RequestLocale)
           /\ toolResult.kind = "return" /\ ~toolResult.value.isError

\* The catalog searchCuisines filters: the records of the received entries.
CatalogRecords == parseCuisinesResponse(outcomes[1].body, RequestLocale)
\* The matching rule of the claim: the id contains the dash-joined
\* lowercased query or the name in the requested locale contains the
\* lowercased query.
ClaimedMatch(cuisine) ==
    LET queryLower == ToLowerCase(reqParams.query.val)
    IN \/ Includes(cuisine.id, ReplaceSpaces(queryLower))
       \/ Includes(ToLowerCase(cuisine.name), queryLower)

\* C14: the ids injected into the filter parameters are exactly the ids of
\* the catalog cuisines that satisfy the matching rule, in catalog order;
\* the empty list when none does.
C14_ExactlyTheMatchingIds ==
    (IsSearch /\ QueryPresent /\ CatalogReceived /\ CatalogRecords.kind = "return") =>
        LET kept == FilterSeq(CatalogRecords.value, ClaimedMatch, 1)
        IN reqParams.cuisines = V([i \in 1..Len(kept) |-> kept[i].id])

Built == urlPc = "built"
BuiltShopSearch == Built /\ urlKind = "shop_search"
\* The names and values of the query parameters of the URL built.
HasParam(name) == \E i \in 1..Len(urlResult.query) : urlResult.query[i][1] = name
ParamValues(name) ==
    LET Named(p) == p[1] = name
        named == SelectSeq(urlResult.query, Named)
    IN [i \in 1..Len(named) |-> named[i][2]]

\* C15: a filtered-search query always carries service_mode, venue_type,
\* per_page and randomize_geo, and carries the upstream parameter of an
\* optional field exactly when the request has the field, a field with the
\* value 0 included.
C15_PresentFieldsAreSent ==
    BuiltShopSearch =>
        /\ HasParam("service_mode") /\ HasParam("venue_type")
        /\ HasParam("per_page") /\ HasParam("randomize_geo")
        /\ IsVal(urlParams.location) <=>
              (HasParam("geo_latitude") /\ HasParam("geo_longitude"))
        /\ IsVal(urlParams.geo_distance) <=> HasParam("geo_distance")
        /\ IsVal(urlParams.date_min) <=> HasParam("date_min")
        /\ IsVal(urlParams.date_max) <=> HasParam("date_max")
        /\ IsVal(urlParams.num_people) <=> HasParam("num_people")
        /\ IsVal(urlParams.time) <=> HasParam("time")
        /\ IsVal(urlParams.budget_min) <=> HasParam("budget_dinner_avg_min")
        /\ IsVal(urlParams.budget_max) <=> HasParam("budget_dinner_avg_max")
        /\ IsVal(urlParams.sort_by) <=> HasParam("sort_by")
        /\ IsVal(urlParams.sort_order) <=> HasParam("sort_order")

\* C16: in a filtered-search query and in a reservation URL the parameter
\* availability_mode=same_meal_time is present exactly when a time
\* parameter is, and directly after it.
C16_TimeAndModeCoupled ==
    Built =>
        LET q == urlResult.query
        IN /\ HasParam("time") <=> HasParam("availability_mode")
           /\ \A i \in 1..Len(q) :
                 q[i][1] = "time" =>
                     /\ i < Len(q)
                     /\ q[i + 1] = <<"availability_mode", "same_meal_time">>
           /\ \A i \in 1..Len(q) :
                 q[i][1] = "availability_mode" => i > 1 /\ q[i - 1][1] = "time"

\* A reservation URL built for a request with a time.
C16_Witness ==
    /\ Built /\ urlKind = "reservation" /\ urlParams.time = V("19:00")
    /\ ParamValues("time") = <<"19:00">>
    /\ ParamValues("availability_mode") = <<"same_meal_time">>

\* C17: the cuisines[] parameters of a filtered-search query are the ids of
\* the request's cuisine list, in its order and with its repetitions; none
\* for an empty or absent list.
C17_CuisinesRepeatedInOrder ==
    BuiltShopSearch =>
        ParamValues("cuisines[]") =
            IF IsVal(urlParams.cuisines) THEN urlParams.cuisines.val ELSE <<>>

\* A list of three ids, one of them twice, was serialized.
C17_Witness ==
    /\ BuiltShopSearch /\ urlParams.cuisines = V(<<"ramen", "italian", "ramen">>)
    /\ ParamValues("cuisines[]") = <<"ramen", "italian", "ramen">>

\* An availability request whose upstream call returned a 2xx body.
AvailabilityAnswered ==
    Done /\ IsAvailability /\ outcomes # <<>> /\ outcomes[1].kind = "ok"
Calendar == outcomes[1].body.availability_calendar
HasCalendarData == IsVal(Calendar) /\ IsVal(Calendar.val.data)
CalendarData == Calendar.val.data.val
RECURSIVE TotalTimes(_, _)
TotalTimes(data, i) ==
    IF i > Len(data) THEN 0 ELSE Len(data[i].times) + TotalTimes(data, i + 1)

\* C18: the slots returned are one per (date, time) pair of the upstream
\* calendar and nothing else, each with its date, time and upstream
\* boolean and with the party size of the request.
C18_OneSlotPerDateTime ==
    (AvailabilityAnswered /\ HasCalendarData) =>
        /\ svcResult.kind = "return"
        /\ Len(svcResult.value) = TotalTimes(CalendarData, 1)
        /\ \A d \in 1..Len(CalendarData) :
              \A t \in 1..Len(CalendarData[d].times) :
                  \E k \in 1..Len(svcResult.value) :
                      svcResult.value[k] =
                          [date |-> CalendarData[d].date,
                           time |-> CalendarData[d].times[t].time,
                           available |-> CalendarData[d].times[t].available,
                           party_size |-> reqParams.num_people.val]
        /\ \A k \in 1..Len(svcResult.value) :
              svcResult.value[k].party_size = reqParams.num_people.val

\* A calendar of three dates, one of them without times, gave three slots,
\* bookable and not.
C18_Witness ==
    /\ AvailabilityAnswered /\ HasCalendarData
    /\ Len(CalendarData) = 3 /\ Len(svcResult.value) = 3
    /\ ~svcResult.value[1].available /\ svcResult.value[2].available
    /\ svcResult.value[1].date # svcResult.value[2].date
    /\ svcResult.value[3].party_size = 2

\* C19: a 2xx availability response without availability_calendar or
\* without availability_calendar.data yields the empty slot list, and the
\* call does not fail.
C19_MissingCalendarIsEmpty ==
    (AvailabilityAnswered /\ ~HasCalendarData) =>
        /\ svcResult = Return(<<>>)
        /\ toolResult.kind = "return" /\ ~toolResult.value.isError

\* The response had a calendar without data.
C19_Witness ==
    /\ AvailabilityAnswered /\ IsVal(Calendar) /\ ~IsVal(Calendar.val.data)
    /\ svcResult = Return(<<>>)

\* C20: a record of either normalizer has a null latitude and longitude
\* when its shop has no geocode, never 0, and the geocode's lat and lon
\* when it has one.
C20_NoGeocodeIsNull ==
    Parsed =>
        /\ Len(normResult.value) = Len(RawShops)
        /\ \A i \in 1..Len(RawShops) :
              IF IsVal(RawShops[i].geocode)
              THEN /\ normResult.value[i].location.lat = RawShops[i].geocode.val.lat
                   /\ normResult.value[i].location.lng = RawShops[i].geocode.val.lon
              ELSE normResult.value[i].location = [lat |-> Null, lng |-> Null]

\* Two shops, the first with a geocode and the second without.
C20_Witness ==
    /\ Parsed /\ Len(RawShops) = 2
    /\ IsVal(RawShops[1].geocode) /\ ~IsVal(RawShops[2].geocode)
    /\ normResult.value[1].location = [lat |-> V(356596), lng |-> V(1397006)]
    /\ normResult.value[2].location = [lat |-> Null, lng |-> Null]

ParsedShopSearch == normPc = "parsed" /\ rawShape = "shop_search"

\* C21: the lunch price range of a filtered-search record has the upstream
\* budget_lunch_min as its min and the upstream budget_lunch_max as its
\* max, each absent exactly when the upstream field is.
C21_LunchRangeMirrorsUpstream ==
    (ParsedShopSearch /\ normResult.kind = "return") =>
        \A i \in 1..Len(normResult.value) :
            /\ normResult.value[i].lunch_price_range.min = RawShops[i].budget_lunch_min
            /\ normResult.value[i].lunch_price_range.max = RawShops[i].budget_lunch_max

\* What upstream says about the availability of a shop, by shape: the
\* autocomplete shape has no such field.
RawAvailability(shop) ==
    IF rawShape = "shop_search" THEN shop.availability ELSE Undefined

\* C22: every record of either normalizer has a list as available_dates,
\* the empty list when upstream gives no availability for the shop.
C22_AvailableDatesIsAList ==
    Parsed =>
        \A i \in 1..Len(normResult.value) :
            /\ IsVal(normResult.value[i].available_dates)
            /\ ~IsVal(RawAvailability(RawShops[i])) =>
                  normResult.value[i].available_dates = V(<<>>)

\* C27: a filtered-search response one of whose shops lacks its name is
\* still normalized, that shop under the name 'Unknown Restaurant'.
C27_MissingNameTolerated ==
    ParsedShopSearch =>
        /\ normResult.kind = "return"
        /\ Len(normResult.value) = Len(RawShops)
        /\ \A i \in 1..Len(RawShops) :
              ~IsVal(RawShops[i].name) =>
                  normResult.value[i].name = V("Unknown Restaurant")

Rebuilt == urlPc = "rebuilt"
ReservationBuilt == (Built \/ Rebuilt) /\ urlKind = "reservation"

C24_ReservationUrlShape ==
    ReservationBuilt =>
        /\ urlResult.base = "https://www.tablecheck.com/en/sushi-ko"
        /\ urlResult.query =
              <<<<"availability_days_limit", "7">>, <<"availability_format", "date">>,
                <<"service_mode", "dining">>, <<"venue_type", "all">>>>
              \o When(IsVal(urlParams.num_people),
                      <<<<"num_people", NumToString(urlParams.num_people.val)>>>>)
              \o When(IsVal(urlParams.date_min), <<<<"date_min", urlParams.date_min.val>>>>)
              \o When(IsVal(urlParams.date_max), <<<<"date_max", urlParams.date_max.val>>>>)
              \o When(IsVal(urlParams.time),
                      <<<<"time", urlParams.time.val>>,
                        <<"availability_mode", "same_meal_time">>>>)
              \o When(IsVal(urlParams.budget_min),
                      <<<<"budget_dinner_avg_min",
                          NumToString(urlParams.budget_min.val)>>>>)
              \o When(IsVal(urlParams.budget_max),
                      <<<<"budget_dinner_avg_max",
                          NumToString(urlParams.budget_max.val)>>>>)
              \o When(IsVal(urlParams.location),
                      <<<<"geo_latitude", CoordToString(urlParams.location.val.lat.val)>>,
                        <<"geo_longitude", CoordToString(urlParams.location.val.lng.val)>>>>)
              \o When(IsVal(urlParams.geo_distance),
                      <<<<"geo_distance", urlParams.geo_distance.val>>>>)
              \o When(IsVal(urlParams.sort_by), <<<<"sort_by", urlParams.sort_by.val>>>>)
              \o When(IsVal(urlParams.sort_order),
                      <<<<"sort_order", urlParams.sort_order.val>>>>)

\* The values of a parameter in the query of an upstream call.
CallParamValues(call, name) ==
    LET Named(p) == p[1] = name
        named == SelectSeq(call.url.query, Named)
    IN [i \in 1..Len(named) |-> named[i][2]]
ShopSearchCalls == {i \in 1..Len(calls) : calls[i].endpoint = "shop_search"}
\* The caller named an anchor, a radius.
AnchorGiven == args.location # Undefined
RadiusGiven == IsVal(args.geo_distance)

\* C25: the handler's parameters have the radius '5km' exactly when the
\* request has an anchor and no radius; a radius of the caller is kept, no
\* radius is added without an anchor, and the filtered-search query carries
\* the radius of the handler's parameters and no other.
C25_DefaultRadiusAtHandler ==
    IsSearch =>
        /\ reqParams.geo_distance =
              IF RadiusGiven THEN args.geo_distance
              ELSE IF AnchorGiven THEN V("5km") ELSE Undefined
        /\ \A i \in ShopSearchCalls :
              CallParamValues(calls[i], "geo_distance") =
                  IF IsVal(reqParams.geo_distance)
                  THEN <<reqParams.geo_distance.val>> ELSE <<>>

\* A filtered search was issued with the default radius for a place name.
C25_Witness ==
    /\ IsSearch /\ args.location = [text |-> "Shibuya"] /\ ~RadiusGiven
    /\ ShopSearchCalls # {}
    /\ \A i \in ShopSearchCalls : CallParamValues(calls[i], "geo_distance") = <<"5km">>

\* C26: in a combined search the calls are issued in the order cuisines,
\* autocomplete, shop_search, each after its predecessor completed.
C26_TextSearchBeforeFilteredSearch ==
    (IsSearch /\ QueryPresent) =>
        /\ Len(calls) <= Len(outcomes) + 1
        /\ \A i \in 1..Len(calls) :
              Endpoints[i] = <<"cuisines", "autocomplete", "shop_search">>[i]

\* C29: a combined search whose three calls succeeded ends in a non-error
\* tool result that lists every restaurant the service returned.
C29_CombinedSearchListsAll ==
    (CombinedReturned /\ Len(outcomes) = 3
         /\ \A i \in 1..3 : outcomes[i].kind = "ok") =>
        /\ toolResult.kind = "return" /\ ~toolResult.value.isError
        /\ Len(toolResult.value.restaurants) = Len(TextRecords) + Len(ParamRecords)

\* The ids searchCuisines matched for the query of a combined search.
MatchedIds == MatchingCuisineIds(CatalogRecords.value, reqParams.query.val)
CallerCuisines == IF IsVal(args.cuisines) THEN args.cuisines.val ELSE <<>>

\* C30: the filtered-search query of a combined search carries exactly the
\* matched cuisine ids and the request object holds them in place of the
\* caller's; in the filter path the query carries the caller's list and
\* the request object keeps it.
C30_CuisineFilterReplaced ==
    (IsSearch /\ ShopSearchCalls # {}) =>
        \A i \in ShopSearchCalls :
            IF QueryPresent
            THEN /\ CallParamValues(calls[i], "cuisines[]") = MatchedIds
                 /\ reqParams.cuisines = V(MatchedIds)
            ELSE /\ CallParamValues(calls[i], "cuisines[]") = CallerCuisines
                 /\ reqParams.cuisines = args.cuisines

\* The caller asked for french, the query matched sushi, and the filtered
\* search was issued for sushi only.
C30_Witness ==
    /\ IsSearch /\ QueryPresent /\ ShopSearchCalls # {}
    /\ args.cuisines = V(<<"french">>) /\ MatchedIds = <<"sushi">>
    /\ \A i \in ShopSearchCalls : CallParamValues(calls[i], "cuisines[]") = <<"sushi">>
    /\ reqParams.cuisines # args.cuisines

\* C28: a request that is being handled has its transport open and the
\* server connected to that transport, whatever the other requests do.
C28_RequestsIsolated ==
    \A r \in Requests :
        httpPc[r] = "handling" => transportOpen[r] /\ serverTransport = r

====
